---- MODULE Spec2Model ----
(***************************************************************************)
(* Model of app/main.py: the certificate store kept as files under         *)
(* CERT_STORAGE_DIR, the pinning validator, the registration endpoint      *)
(* behind the API-key middleware, and the connection registry              *)
(* (active_connections) driven by the raw WebSocket endpoint and by the    *)
(* Socket.IO event handlers.                                               *)
(*                                                                         *)
(* Texts (PEM texts, header values, file contents) are sequences of        *)
(* tokens.  A token is either one character that the code treats           *)
(* specially ("SP" space, "LF" line feed, "CR" carriage return, the        *)
(* percent escapes "%20" "%0A" "%0D") or a run of characters that no       *)
(* operation of the code splits ("-----BEGIN", "CERTIFICATE-----",         *)
(* "-----END", one base64 line).                                           *)
(***************************************************************************)
EXTENDS Integers, Sequences, FiniteSets, TLC

\* ------------------------------------------------------------- bounds

\* Largest number of line ends put after the END line of a PEM text.
MaxTrail == 1
\* Number of transport connections in a behaviour.
MaxConns == 2

\* ------------------------------------------------------------- values

\* Python's None (a sequence, like the identifiers and the texts it stands in for).
None == <<"None">>

\* The agent identifiers requests and heartbeats carry, as character
\* sequences: "a", "b", "./a" and "b/a".
IdA == <<"a">>
IdB == <<"b">>
IdDotA == <<".", "/", "a">>
IdBSlashA == <<"b", "/", "a">>
AgentIds == {IdA, IdB, IdDotA, IdBSlashA}

\* ------------------------------------------------------------- texts

IsSpace(t) == t \in {"SP", "LF", "CR"}

RECURSIVE Rep(_, _)
Rep(t, n) == IF n = 0 THEN <<>> ELSE <<t>> \o Rep(t, n - 1)

RECURSIVE LStrip(_)
LStrip(s) ==
    IF s # <<>> /\ IsSpace(Head(s)) THEN LStrip(Tail(s)) ELSE s

RECURSIVE RStrip(_)
RStrip(s) ==
    IF s # <<>> /\ IsSpace(s[Len(s)]) THEN RStrip(SubSeq(s, 1, Len(s) - 1)) ELSE s

\* str.strip(): the text without its leading and trailing whitespace.
Strip(s) == LStrip(RStrip(s))

\* str.replace(old, new): every non-overlapping occurrence, left to right.
RECURSIVE Replace(_, _, _)
Replace(s, old, new) ==
    IF Len(s) < Len(old) THEN s
    ELSE IF SubSeq(s, 1, Len(old)) = old
         THEN new \o Replace(SubSeq(s, Len(old) + 1, Len(s)), old, new)
         ELSE <<Head(s)>> \o Replace(Tail(s), old, new)

BeginMarker == <<"-----BEGIN", "SP", "CERTIFICATE-----">>
EndMarker == <<"-----END", "SP", "CERTIFICATE-----">>

\* The base64 lines of the certificates the agents hold, and what each one
\* decodes to: a certificate with a subject CN, a certificate without a CN,
\* or bytes that are no certificate.
Bodies == {"MIIa1", "MIIa2", "MIIb1", "MIIdota", "MIIbslasha", "MIInocn", "MIIbad"}

DerOf(body) ==
    CASE body = "MIIa1" -> [ok |-> TRUE, cn |-> IdA]
      [] body = "MIIa2" -> [ok |-> TRUE, cn |-> IdA]
      [] body = "MIIb1" -> [ok |-> TRUE, cn |-> IdB]
      [] body = "MIIdota" -> [ok |-> TRUE, cn |-> IdDotA]
      [] body = "MIIbslasha" -> [ok |-> TRUE, cn |-> IdBSlashA]
      [] body = "MIInocn" -> [ok |-> TRUE, cn |-> None]
      [] OTHER -> [ok |-> FALSE, cn |-> None]

PemText(eol, body, trail) ==
    BeginMarker \o eol \o <<body>> \o eol \o EndMarker \o Rep("LF", trail)

\* The texts a request or a header can carry: the PEM encodings of the
\* certificates with LF line ends and up to MaxTrail line ends after them,
\* the same with CR LF line ends, one with white space before it, a text
\* cut before its END line, and a text whose BEGIN line is broken.
Pems ==
    {PemText(<<"LF">>, b, t) : b \in Bodies, t \in 0..MaxTrail}
        \cup {PemText(<<"CR", "LF">>, b, 0) : b \in Bodies}
        \cup {<<"SP", "LF">> \o PemText(<<"LF">>, "MIIa1", 0)}
        \cup {BeginMarker \o <<"LF", "MIIa1", "LF">>}
        \cup {<<"-----BEGIN", "LF", "CERTIFICATE-----", "LF", "MIIa1", "LF">> \o EndMarker}

\* ------------------------------------------------ extract_cn_from_certificate

\* x509.load_pem_x509_certificate: the text between the markers, whitespace
\* dropped, must be the base64 of one certificate.
PemBody(text) ==
    LET s == Strip(text)
        n == Len(s)
    IN  IF n >= 6 /\ SubSeq(s, 1, 3) = BeginMarker /\ SubSeq(s, n - 2, n) = EndMarker
        THEN SelectSeq(SubSeq(s, 4, n - 3), LAMBDA t : ~IsSpace(t))
        ELSE <<>>

LoadPem(text) ==
    LET b == PemBody(text)
    IN  IF Len(b) = 1 THEN DerOf(b[1]) ELSE [ok |-> FALSE, cn |-> None]

\* The result of a call: raised or returned, with the value returned.
extract_cn_from_certificate(cert_pem) ==
    LET cert == LoadPem(cert_pem)
    IN  IF cert.ok THEN [raised |-> FALSE, value |-> cert.cn]
        ELSE [raised |-> TRUE, value |-> None]

\* -------------------------------------------------------------- state

VARIABLES
    \* The files of CERT_STORAGE_DIR: path (its parts below the directory)
    \* to the bytes of the file.
    cert_files,
    \* active_connections: agent identifier to session handle.
    active_connections,
    \* The transport connections, each with its handler's local state.
    conn,
    \* The last step taken: the operation, its inputs and what it answered.
    ev

vars == <<cert_files, active_connections, conn, ev>>

\* ----------------------------------------------------- certificate files

RECURSIVE SplitSlash(_, _)
\* str split on "/": cur is the part being read.
SplitSlash(s, cur) ==
    IF s = <<>> THEN <<cur>>
    ELSE IF Head(s) = "/" THEN <<cur>> \o SplitSlash(Tail(s), <<>>)
    ELSE SplitSlash(Tail(s), Append(cur, Head(s)))

\* CERT_STORAGE_DIR / f"{agent_id}.crt": pathlib drops the empty parts and
\* the "." parts of the joined name.  (No identifier of AgentIds starts
\* with "/" or has a ".." part.)
CertPath(agent_id) ==
    SelectSeq(SplitSlash(agent_id \o <<".crt">>, <<>>),
              LAMBDA part : part # <<>> /\ part # <<".">>)

\* Path.write_text on POSIX: the text is written as it is; the write fails
\* when the file's directory does not exist, and only CERT_STORAGE_DIR does.
WriteText(files, path, text) ==
    IF Len(path) = 1
    THEN [raised |-> FALSE,
          files |-> [p \in DOMAIN files \cup {path} |-> IF p = path THEN text ELSE files[p]]]
    ELSE [raised |-> TRUE, files |-> files]

RECURSIVE UniversalNewlines(_)
\* Text-mode reading (newline=None): "\r\n" and "\r" are read as "\n".
UniversalNewlines(s) ==
    IF s = <<>> THEN <<>>
    ELSE IF Head(s) = "CR"
         THEN IF Len(s) >= 2 /\ s[2] = "LF"
              THEN <<"LF">> \o UniversalNewlines(SubSeq(s, 3, Len(s)))
              ELSE <<"LF">> \o UniversalNewlines(Tail(s))
         ELSE <<Head(s)>> \o UniversalNewlines(Tail(s))

\* Path.read_text of an existing file.
ReadText(files, path) == UniversalNewlines(files[path])

save_agent_certificate(files, agent_id, cert_pem) ==
    WriteText(files, CertPath(agent_id), cert_pem)

\* Path.exists(): the path, or no path (None in the code).
NoPath == <<>>

get_agent_certificate_path(files, agent_id) ==
    IF CertPath(agent_id) \in DOMAIN files THEN CertPath(agent_id) ELSE NoPath

NotFound == <<"NotFound">>

\* The store's lookup, as validate_client_certificate performs it: the path
\* if the file exists, then its text.
Lookup(files, agent_id) ==
    LET path == get_agent_certificate_path(files, agent_id)
    IN  IF path = NoPath THEN NotFound ELSE ReadText(files, path)

\* ------------------------------------------------ validate_client_certificate

validate_client_certificate(files, cert_pem) ==
    LET r == extract_cn_from_certificate(cert_pem)
        cn == r.value
        stored_cert_path == get_agent_certificate_path(files, cn)
    IN  IF r.raised THEN None
        ELSE IF cn = None THEN None
        ELSE IF stored_cert_path = NoPath THEN None
        ELSE IF Strip(cert_pem) = Strip(ReadText(files, stored_cert_path)) THEN cn
        ELSE None

\* ------------------------------------------ POST /agent/certificate

SECRET_API_KEY == <<"Bearer", "SP", "key">>

\* The Authorization header values: the expected one, another key, the
\* key without its scheme, and no header.
AuthHeaders == {SECRET_API_KEY, <<"Bearer", "SP", "other">>, <<"key">>, None}

\* The request paths, as the prefix the middleware looks for (if the path
\* has it) and the rest: "/agent/certificate", "/hello-world", "/ws",
\* "/ws/agent/certificate" and "/socket.iox".
UploadPath == <<"/agent/certificate">>
HelloPath == <<"/hello-world">>
OtherPaths == {HelloPath, <<"/ws">>, <<"/ws", "/agent/certificate">>, <<"/socket.io", "x">>}

\* str.startswith
StartsWith(s, prefix) ==
    Len(s) >= Len(prefix) /\ SubSeq(s, 1, Len(prefix)) = prefix

\* The requests: the path, the Authorization header, whether the body is
\* JSON, and the two fields of the body (None: absent).
Requests ==
    [path : {UploadPath}, authorization : {SECRET_API_KEY}, json : {TRUE},
     agent_id : AgentIds \cup {None}, certificate : Pems \cup {None}]
    \cup [path : {UploadPath}, authorization : AuthHeaders, json : BOOLEAN,
          agent_id : {IdA, None},
          certificate : {PemText(<<"LF">>, "MIIa1", 0), PemText(<<"LF">>, "MIIa2", 0)}]
    \cup [path : OtherPaths, authorization : AuthHeaders, json : {TRUE},
          agent_id : {IdA}, certificate : {PemText(<<"LF">>, "MIIa2", 0)}]

Response(status, detail) == [status |-> status, detail |-> detail]

\* The handler without its comparison of the CN with agent_id.
upload_agent_certificate_unchecked(files, req) ==
    LET r == extract_cn_from_certificate(req.certificate)
        saved == save_agent_certificate(files, req.agent_id, req.certificate)
        Keep(resp) == [response |-> resp, files |-> files]
    IN  IF ~req.json THEN Keep(Response(400, "InvalidJSON"))
        ELSE IF req.agent_id = None THEN Keep(Response(400, "MissingAgentId"))
        ELSE IF req.certificate = None THEN Keep(Response(400, "MissingCertificate"))
        ELSE IF r.raised THEN Keep(Response(400, "MalformedCertificate"))
        ELSE IF r.value = None THEN Keep(Response(400, "MissingCommonName"))
        ELSE IF saved.raised THEN Keep(Response(500, "StorageFailure"))
        ELSE [response |-> Response(200, "OK"), files |-> saved.files]

\* The handler: the response and the files after it.
upload_agent_certificate(files, req) ==
    LET r == extract_cn_from_certificate(req.certificate)
        cn_from_cert == r.value
        saved == save_agent_certificate(files, req.agent_id, req.certificate)
        Keep(resp) == [response |-> resp, files |-> files]
    IN  IF ~req.json THEN Keep(Response(400, "InvalidJSON"))
        ELSE IF req.agent_id = None THEN Keep(Response(400, "MissingAgentId"))
        ELSE IF req.certificate = None THEN Keep(Response(400, "MissingCertificate"))
        ELSE IF r.raised THEN Keep(Response(400, "MalformedCertificate"))
        ELSE IF cn_from_cert = None THEN Keep(Response(400, "MissingCommonName"))
        ELSE IF cn_from_cert # req.agent_id THEN Keep(Response(400, "IdentityMismatch"))
        ELSE IF saved.raised THEN Keep(Response(500, "StorageFailure"))
        ELSE [response |-> Response(200, "OK"), files |-> saved.files]

\* hello_world on a body that has no "name".
hello_world(files, req) ==
    [response |-> IF ~req.json THEN Response(400, "InvalidJSON")
                  ELSE Response(400, "MissingName"),
     files |-> files]

\* call_next: the router picks the handler whose path is the request's,
\* and answers 404 when no HTTP route has it.
call_next(files, req) ==
    IF req.path = UploadPath THEN upload_agent_certificate(files, req)
    ELSE IF req.path = HelloPath THEN hello_world(files, req)
    ELSE [response |-> Response(404, "NotFound"), files |-> files]

\* The middleware letting every request through.
check_api_key_disabled(files, req) == call_next(files, req)

\* The middleware in front of the handlers.
check_api_key(files, req) ==
    IF StartsWith(req.path, <<"/ws">>) \/ StartsWith(req.path, <<"/socket.io">>)
    THEN call_next(files, req)
    ELSE IF req.authorization # SECRET_API_KEY
         THEN [response |-> Response(403, "Forbidden"), files |-> files]
         ELSE call_next(files, req)

\* One registration request, from its arrival to its response.
Register(req) ==
    LET out == check_api_key(cert_files, req)
    IN  /\ cert_files' = out.files
        /\ ev' = [op |-> "register", req |-> req, response |-> out.response]
        /\ UNCHANGED <<active_connections, conn>>

\* One call of the validator on a presented text.
Validate(cert_pem) ==
    /\ ev' = [op |-> "validate", cert_pem |-> cert_pem,
              result |-> validate_client_certificate(cert_files, cert_pem)]
    /\ UNCHANGED <<cert_files, active_connections, conn>>

Conns == 1..MaxConns

\* A connection whose handler has returned: its local variables are gone,
\* and it is no longer among the connections that have sent a heartbeat.
Closed(k) ==
    [k EXCEPT !.state = "closed", !.transport = "none", !.agent_id = None,
              !.validated = None, !.sent = {}]

\* Connections are numbered in the order they are attempted.
NextToConnect(c) ==
    /\ conn[c].state = "idle"
    /\ \A d \in Conns : d < c => conn[d].state # "idle"

\* A connection not yet attempted.  agent_id is the raw handler's local
\* variable, validated its validated_agent_id (None without a header), sent the
\* identifiers its heartbeats have carried since it was accepted, close_code
\* the code it was closed with by the server (0: none).
IdleConn == [transport |-> "none", state |-> "idle", agent_id |-> None,
             validated |-> None, sent |-> {}, close_code |-> 0]

Init ==
    /\ cert_files = [p \in {} |-> <<>>]
    /\ active_connections = [a \in {} |-> 0]
    /\ conn = [c \in Conns |-> IdleConn]
    /\ ev = [op |-> "init"]

\* The certificate store alone: registrations and validations.
NextStore ==
    \/ \E req \in Requests : Register(req)
    \/ \E cert_pem \in Pems : Validate(cert_pem)

SpecStore == Init /\ [][NextStore]_vars

\* ------------------------------------------- the client-certificate header

\* The header value when the proxy sends none (environ.get(..., '')).
NoHeader == <<>>

\* urllib.parse.unquote on the escapes a forwarded certificate holds.
UnquoteToken(t) ==
    CASE t = "%20" -> "SP"
      [] t = "%0A" -> "LF"
      [] t = "%0D" -> "CR"
      [] OTHER -> t

unquote(h) == [i \in 1..Len(h) |-> UnquoteToken(h[i])]

\* The decoding without the two calls that repair the marker lines.
DecodeHeader_unrepaired(client_cert_header) ==
    Replace(unquote(client_cert_header), <<"SP">>, <<"LF">>)

\* The three replace calls that follow unquote.
DecodeHeader(client_cert_header) ==
    LET decoded_cert == unquote(client_cert_header)
        spaced == Replace(decoded_cert, <<"SP">>, <<"LF">>)
        begun == Replace(spaced, <<"-----BEGIN", "LF", "CERTIFICATE-----">>, BeginMarker)
    IN  Replace(begun, <<"-----END", "LF", "CERTIFICATE-----">>, EndMarker)

\* The proxy's escaped form of a PEM text: every line feed, space and
\* carriage return percent-encoded.
EscapeToken(t) ==
    CASE t = "SP" -> "%20"
      [] t = "LF" -> "%0A"
      [] t = "CR" -> "%0D"
      [] OTHER -> t

Escaped(pem) == [i \in 1..Len(pem) |-> EscapeToken(pem[i])]

\* The proxy's form with the line feeds replaced by spaces, not escaped.
Spaced(pem) == Replace(pem, <<"LF">>, <<"SP">>)

\* The PEM text the proxy makes of the certificate a client presented.
Presented(body) == PemText(<<"LF">>, body, 1)

\* The header values a connection attempt carries.
Headers ==
    {NoHeader}
        \cup {Escaped(Presented("MIIa1")), Escaped(Presented("MIIa2"))}
        \cup {Spaced(Presented("MIIb1")), Escaped(Presented("MIIbad"))}

\* The registrations made while agents connect.
ProvisionRequests ==
    [path : {UploadPath}, authorization : {SECRET_API_KEY}, json : {TRUE},
     agent_id : {IdA}, certificate : {Presented("MIIa1"), Presented("MIIb1")}]

\* ------------------------------------------------------- the registry

\* active_connections[key] = session
Upsert(reg, key, session) ==
    [k \in DOMAIN reg \cup {key} |-> IF k = key THEN session ELSE reg[k]]

\* del active_connections[key]
Delete(reg, key) == [k \in DOMAIN reg \ {key} |-> reg[k]]

\* The identifiers a heartbeat payload carries in "id" (None: no id).
HbIds == {IdA, IdB}

Messages ==
    [kind : {"heartbeat"}, id : HbIds \cup {None}]
        \cup {[kind |-> "other", id |-> None], [kind |-> "undecodable", id |-> None]}

\* ------------------------------------------------- the raw channel, /ws

\* The registry after the raw channel accepted a connection: accept() alone.
ws_on_connect(reg, websocket, has_header, validated_agent_id) == reg

\* A heartbeat branch that binds only the identifier the certificate
\* was validated for at connect time (the handler does not keep it; the
\* registry is left alone).
ws_on_heartbeat_certificate_only(reg, websocket, id) == reg

\* The registry after the raw channel handled a heartbeat with payload id.
ws_on_heartbeat(reg, websocket, id) ==
    IF id # None THEN Upsert(reg, id, websocket) ELSE reg

\* The raw handler answering every topic as it answers a heartbeat.
ws_replies_to_every_topic(websocket, msg) == <<websocket>>

\* The heartbeat_ack texts one turn of the loop sends, as the sequence of
\* the connections they are sent to: send_text on the handler's own
\* websocket in the heartbeat branch, nothing in the other branch.
ws_replies(websocket, msg) ==
    IF msg.kind = "heartbeat" THEN <<websocket>> ELSE <<>>

\* What the connecting party sees of a connection attempt: whether it was
\* accepted and, if the server closed it, the close code and reason (0 and
\* "" when the transport carries none).
Seen(accepted, close_code, reason) ==
    [accepted |-> accepted, close_code |-> close_code, reason |-> reason]

\* The raw handler telling a text that does not parse from the other
\* rejections, by the reason of its except branch.
ws_connect_outcome_detailed(files, client_cert_header) ==
    LET client_cert_pem == DecodeHeader(client_cert_header)
    IN  IF client_cert_header = NoHeader THEN Seen(TRUE, 0, "")
        ELSE IF extract_cn_from_certificate(client_cert_pem).raised
             THEN Seen(FALSE, 1008, "Certificate processing error")
        ELSE IF validate_client_certificate(files, client_cert_pem) = None
             THEN Seen(FALSE, 1008, "Invalid client certificate")
        ELSE Seen(TRUE, 0, "")

\* websocket_endpoint up to websocket.accept(), as the connecting party sees
\* it.  The validator returns None for every failure, its own exceptions
\* included, and unquote and replace raise nothing: the except branch with
\* the reason "Certificate processing error" is not taken.
ws_connect_outcome(files, client_cert_header) ==
    LET validated_agent_id ==
            validate_client_certificate(files, DecodeHeader(client_cert_header))
    IN  IF client_cert_header = NoHeader THEN Seen(TRUE, 0, "")
        ELSE IF validated_agent_id = None
             THEN Seen(FALSE, 1008, "Invalid client certificate")
        ELSE Seen(TRUE, 0, "")

\* The raw handler going on to accept whatever the validator answered.
WsConnect_accepts_all(c, client_cert_header) ==
    /\ NextToConnect(c)
    /\ conn' = [conn EXCEPT ![c] = [@ EXCEPT !.transport = "ws", !.state = "open"]]
    /\ ev' = [op |-> "connect", conn |-> c, transport |-> "ws",
              header |-> client_cert_header, outcome |-> "accepted"]
    /\ UNCHANGED <<cert_files, active_connections>>

\* websocket_endpoint up to websocket.accept(): the header is validated if
\* there is one (unquote and replace raise nothing, and the validator
\* catches what it raises, so the handler's own except branch is not taken).
WsConnect(c, client_cert_header) ==
    LET validated_agent_id ==
            validate_client_certificate(cert_files, DecodeHeader(client_cert_header))
        seen == ws_connect_outcome(cert_files, client_cert_header)
    IN  /\ NextToConnect(c)
        /\ IF ~seen.accepted
           THEN /\ conn' = [conn EXCEPT ![c] = [@ EXCEPT !.transport = "ws",
                                                        !.state = "refused",
                                                        !.close_code = seen.close_code]]
                /\ ev' = [op |-> "connect", conn |-> c, transport |-> "ws",
                          header |-> client_cert_header, outcome |-> "closed",
                          reason |-> seen.reason]
           ELSE /\ conn' = [conn EXCEPT ![c] =
                               [@ EXCEPT !.transport = "ws", !.state = "open",
                                         !.agent_id = None,
                                         !.validated = IF client_cert_header = NoHeader
                                                       THEN None ELSE validated_agent_id]]
                /\ ev' = [op |-> "connect", conn |-> c, transport |-> "ws",
                          header |-> client_cert_header, outcome |-> "accepted",
                          reason |-> seen.reason]
        /\ active_connections' =
               IF ~seen.accepted
               THEN active_connections
               ELSE ws_on_connect(active_connections, c, client_cert_header # NoHeader,
                                  validated_agent_id)
        /\ UNCHANGED cert_files

\* The two except branches of websocket_endpoint: the entry under the
\* handler's agent_id is deleted if there is one.
WsCleanup(reg, agent_id) ==
    IF agent_id # None /\ agent_id \in DOMAIN reg THEN Delete(reg, agent_id) ELSE reg

\* One turn of the receive loop on a message that arrived.
WsMessage(c, msg) ==
    /\ conn[c].state = "open"
    /\ conn[c].transport = "ws"
    /\ \/ /\ msg.kind = "heartbeat"
          /\ conn' = [conn EXCEPT ![c] =
                         [@ EXCEPT !.agent_id = msg.id,
                                   !.sent = IF msg.id # None THEN @ \cup {msg.id} ELSE @]]
          /\ active_connections' = ws_on_heartbeat(active_connections, c, msg.id)
          /\ ev' = [op |-> "message", conn |-> c, transport |-> "ws", msg |-> msg,
                    ack_to |-> ws_replies(c, msg)]
       \/ /\ msg.kind = "other"
          /\ ev' = [op |-> "message", conn |-> c, transport |-> "ws", msg |-> msg,
                    ack_to |-> ws_replies(c, msg)]
          /\ UNCHANGED <<conn, active_connections>>
       \/ /\ msg.kind = "undecodable"
          \* json.loads (or .get on what it returned) raises: except Exception.
          /\ active_connections' = WsCleanup(active_connections, conn[c].agent_id)
          /\ conn' = [conn EXCEPT ![c] = Closed(@)]
          /\ ev' = [op |-> "close", conn |-> c, transport |-> "ws", cause |-> "decode"]
    /\ UNCHANGED cert_files

\* receive_text raises WebSocketDisconnect (the peer closed) or another
\* exception (the transport failed): both branches clean up alike.
WsClose(c, cause) ==
    /\ conn[c].state = "open"
    /\ conn[c].transport = "ws"
    /\ active_connections' = WsCleanup(active_connections, conn[c].agent_id)
    /\ conn' = [conn EXCEPT ![c] = Closed(@)]
    /\ ev' = [op |-> "close", conn |-> c, transport |-> "ws", cause |-> cause]
    /\ UNCHANGED cert_files

\* --------------------------------------------- the event channel, Socket.IO

\* The registry after the event channel accepted a connection.
sio_on_connect(reg, sid, has_header, validated_agent_id) ==
    IF has_header THEN Upsert(reg, validated_agent_id, sid) ELSE reg

\* The registry after the event channel handled a heartbeat.
sio_on_heartbeat(reg, sid, id) == reg

\* connect(sid, environ) as the connecting party sees it: every return
\* False refuses the handshake, with no code or reason of the handler's.
sio_connect_outcome(files, client_cert_header) ==
    LET validated_agent_id ==
            validate_client_certificate(files, DecodeHeader(client_cert_header))
    IN  IF client_cert_header = NoHeader THEN Seen(TRUE, 0, "")
        ELSE IF validated_agent_id = None THEN Seen(FALSE, 0, "")
        ELSE Seen(TRUE, 0, "")

\* connect(sid, environ): returning False refuses the handshake.
SioConnect(c, client_cert_header) ==
    LET validated_agent_id ==
            validate_client_certificate(cert_files, DecodeHeader(client_cert_header))
        seen == sio_connect_outcome(cert_files, client_cert_header)
    IN  /\ NextToConnect(c)
        /\ IF ~seen.accepted
           THEN /\ conn' = [conn EXCEPT ![c] = [@ EXCEPT !.transport = "sio",
                                                        !.state = "refused"]]
                /\ ev' = [op |-> "connect", conn |-> c, transport |-> "sio",
                          header |-> client_cert_header, outcome |-> "refused"]
                /\ UNCHANGED active_connections
           ELSE /\ conn' = [conn EXCEPT ![c] = [@ EXCEPT !.transport = "sio",
                                                        !.state = "open"]]
                /\ active_connections' =
                       sio_on_connect(active_connections, c, client_cert_header # NoHeader,
                                      validated_agent_id)
                /\ ev' = [op |-> "connect", conn |-> c, transport |-> "sio",
                          header |-> client_cert_header, outcome |-> "accepted"]
        /\ UNCHANGED cert_files

\* An emit without a room: every connected session receives the event.
sio_emit_broadcast(room) ==
    SelectSeq([d \in Conns |-> d],
              LAMBDA d : conn[d].state = "open" /\ conn[d].transport = "sio")

\* sio.emit(event, data, room=sid): the sessions the event is sent to, in
\* order.  A session is alone in the room that bears its sid.
sio_emit(room) == <<room>>

\* heartbeat(sid, data): the acknowledgement is emitted to room=sid.
SioHeartbeat(c, id) ==
    /\ conn[c].state = "open"
    /\ conn[c].transport = "sio"
    /\ conn' = [conn EXCEPT ![c] = [@ EXCEPT !.sent = IF id # None THEN @ \cup {id} ELSE @]]
    /\ ev' = [op |-> "message", conn |-> c, transport |-> "sio",
              msg |-> [kind |-> "heartbeat", id |-> id], ack_to |-> sio_emit(c)]
    /\ active_connections' = sio_on_heartbeat(active_connections, c, id)
    /\ UNCHANGED cert_files

\* disconnect(sid): the first entry whose session is sid is deleted (a sid
\* is entered by connect alone, so under one key at most).
SioDisconnect(c) ==
    /\ conn[c].state = "open"
    /\ conn[c].transport = "sio"
    /\ IF \E aid \in DOMAIN active_connections : active_connections[aid] = c
       THEN \E aid \in DOMAIN active_connections :
               /\ active_connections[aid] = c
               /\ active_connections' = Delete(active_connections, aid)
       ELSE UNCHANGED active_connections
    /\ conn' = [conn EXCEPT ![c] = Closed(@)]
    /\ ev' = [op |-> "close", conn |-> c, transport |-> "sio", cause |-> "disconnect"]
    /\ UNCHANGED cert_files

\* ------------------------------------------------------ the whole service

Next ==
    \/ \E req \in ProvisionRequests : Register(req)
    \/ \E c \in Conns, h \in Headers : WsConnect(c, h)
    \/ \E c \in Conns, msg \in Messages : WsMessage(c, msg)
    \/ \E c \in Conns, cause \in {"disconnect", "error"} : WsClose(c, cause)
    \/ \E c \in Conns, h \in Headers : SioConnect(c, h)
    \/ \E c \in Conns, id \in HbIds \cup {None} : SioHeartbeat(c, id)
    \/ \E c \in Conns : SioDisconnect(c)

Spec == Init /\ [][Next]_vars

\* ------------------------------------------------- the store's properties

\* The certificate a text carries: its base64 body, whatever the white
\* space and the line ends around it.
CertOf(text) == PemBody(text)

\* A request that reaches the handler with both fields.
WellFormed(req) ==
    /\ req.path = UploadPath
    /\ req.authorization = SECRET_API_KEY
    /\ req.json
    /\ req.agent_id # None
    /\ req.certificate # None

Succeeded(e) == e.op = "register" /\ e.response.status = 200

\* C5: Validate(presented) returns the CN of the presented text exactly when
\* the text parses, carries a CN, a file is pinned for that CN and the
\* presented text, trimmed, equals the pinned text (trimmed as the code
\* trims it); otherwise it returns None.
C5_ValidateIffPinned ==
    \A presented \in Pems :
        LET cert == LoadPem(presented)
            pinned == cert_files[CertPath(cert.cn)]
            accept == /\ cert.ok
                      /\ cert.cn # None
                      /\ CertPath(cert.cn) \in DOMAIN cert_files
                      /\ Strip(presented) = Strip(pinned)
            result == validate_client_certificate(cert_files, presented)
        IN  IF accept THEN result = cert.cn ELSE result = None

\* C6: right after a successful Register(A, C2), Validate accepts C2 and
\* rejects every text that carries another certificate with CN A (so every
\* certificate pinned for A earlier).
C6_NewestPinOnly ==
    Succeeded(ev) =>
        /\ validate_client_certificate(cert_files, ev.req.certificate) = ev.req.agent_id
        /\ \A c1 \in Pems :
               (LoadPem(c1).cn = ev.req.agent_id /\ CertOf(c1) # CertOf(ev.req.certificate))
                   => validate_client_certificate(cert_files, c1) = None

\* C7: a registration that reaches the handler with a parsable certificate
\* whose CN differs from agent_id is answered 400 IdentityMismatch and
\* leaves every file as it was.
C7_MismatchNeverWrites ==
    [][(/\ ev'.op = "register"
        /\ WellFormed(ev'.req)
        /\ LoadPem(ev'.req.certificate).ok
        /\ LoadPem(ev'.req.certificate).cn # None
        /\ LoadPem(ev'.req.certificate).cn # ev'.req.agent_id)
       => (ev'.response = Response(400, "IdentityMismatch") /\ cert_files' = cert_files)]_vars

\* A mismatching registration was refused while a pin was in the store.
C7_Witness ==
    /\ ev.op = "register"
    /\ WellFormed(ev.req)
    /\ ev.response.detail = "IdentityMismatch"
    /\ LoadPem(ev.req.certificate).cn = IdB
    /\ ev.req.agent_id = IdA
    /\ DOMAIN cert_files # {}

\* C8: every stored file holds a certificate whose CN is the identifier the
\* file is stored under (the file's name without ".crt").
C8_StoredUnderOwnCN ==
    \A path \in DOMAIN cert_files :
        /\ LoadPem(cert_files[path]).ok
        /\ path = <<LoadPem(cert_files[path]).cn \o <<".crt">>>>

\* C9: right after a successful Register(A, pem), Lookup(A) is pem, byte
\* for byte.
C9_LookupReturnsRegistered ==
    Succeeded(ev) => Lookup(cert_files, ev.req.agent_id) = ev.req.certificate

\* --------------------------------------------- the registry's properties

IsOpen(c) == conn[c].state = "open"

\* The step is connection c handling a heartbeat that carries id.
HeartbeatStep(c, id) ==
    /\ IsOpen(c)
    /\ ev'.op = "message"
    /\ ev'.conn = c
    /\ ev'.msg = [kind |-> "heartbeat", id |-> id]

\* The step closes connection c.
CloseStep(c) == IsOpen(c) /\ conn'[c].state = "closed"

PointsAt(reg, id, c) == id \in DOMAIN reg /\ reg[id] = c

\* C1: when a connection sends a heartbeat for A while another open
\* connection has sent one for A, the registry's entry for A points at the
\* later sender; and when the older of the two then closes, the entry for A
\* still points at the newer one.
C1_OlderCloseKeepsNewer ==
    [][\A id \in HbIds : \A c, d \in Conns :
          (c # d /\ IsOpen(c) /\ IsOpen(d) /\ id \in conn[c].sent) =>
              /\ HeartbeatStep(d, id) => PointsAt(active_connections', id, d)
              /\ (id \in conn[d].sent /\ PointsAt(active_connections, id, d) /\ CloseStep(c))
                     => PointsAt(active_connections', id, d)]_vars

\* C2: no registry entry holds the session of a closed connection.
C2_ClosedLeavesNoEntry ==
    \A c \in Conns :
        conn[c].state = "closed" =>
            \A id \in DOMAIN active_connections : active_connections[id] # c

\* C3: a heartbeat for A makes the registry's entry for A the sender; and
\* when a connection that sent a heartbeat for A closes, no other connection
\* having sent one for A, the registry has no entry for A.
C3_BoundThenGone ==
    [][\A id \in HbIds : \A c \in Conns :
          /\ HeartbeatStep(c, id) => PointsAt(active_connections', id, c)
          /\ (/\ CloseStep(c)
              /\ id \in conn[c].sent
              /\ \A d \in Conns \ {c} : id \notin conn[d].sent)
                 => id \notin DOMAIN active_connections']_vars

\* The step accepts connection c.
ConnectStep(c) == conn[c].state = "idle" /\ conn'[c].state = "open"

\* C4: for the same event the two transports leave the same identifiers in
\* the registry; neither adds an entry when a connection is accepted and
\* both have an entry for the id of a heartbeat after it.
C4_TransportsAgree ==
    [][\A c \in Conns :
          /\ ConnectStep(c) =>
                 LET has_header == ev'.header # NoHeader
                     validated == validate_client_certificate(
                                      cert_files, DecodeHeader(ev'.header))
                 IN  /\ DOMAIN ws_on_connect(active_connections, c, has_header, validated)
                            = DOMAIN sio_on_connect(active_connections, c, has_header, validated)
                     /\ active_connections' = active_connections
          /\ \A id \in HbIds :
                 HeartbeatStep(c, id) =>
                     /\ DOMAIN ws_on_heartbeat(active_connections, c, id)
                            = DOMAIN sio_on_heartbeat(active_connections, c, id)
                     /\ id \in DOMAIN active_connections']_vars

\* The validator rejects the certificate the header carries.
Rejects(client_cert_header) ==
    /\ client_cert_header # NoHeader
    /\ validate_client_certificate(cert_files, DecodeHeader(client_cert_header)) = None

\* C10: a connection attempt whose header the validator rejects is closed
\* with code 1008 on the raw channel and refused on the event channel, the
\* registry is as before the attempt, and nothing from that connection is
\* handled afterwards.
C10_RejectedNeverOpens ==
    [][\A c \in Conns :
          /\ (conn[c].state = "idle" /\ ev'.op = "connect" /\ ev'.conn = c
                  /\ Rejects(ev'.header))
                 => /\ conn'[c].state = "refused"
                    /\ ev'.transport = "ws"
                           => (conn'[c].close_code = 1008 /\ ev'.outcome = "closed")
                    /\ ev'.transport = "sio" => ev'.outcome = "refused"
                    /\ active_connections' = active_connections
          /\ conn[c].state = "refused"
                 => /\ conn'[c] = conn[c]
                    /\ ev' # ev => ev'.op = "register" \/ ev'.conn # c]_vars

\* Both transports have turned away a certificate that differs from the
\* one pinned for its CN.
C10_Witness ==
    /\ CertPath(IdA) \in DOMAIN cert_files
    /\ conn[1].transport = "ws"
    /\ conn[1].state = "refused"
    /\ conn[1].close_code = 1008
    /\ conn[2].transport = "sio"
    /\ conn[2].state = "refused"
    /\ ev.op = "connect"
    /\ ev.header = Escaped(Presented("MIIa2"))

\* ------------------------------------------- the message loop's properties

\* The step is raw connection c receiving a message that json.loads, or the
\* reading of its topic and payload, does not accept.
UndecodableStep(c) ==
    /\ IsOpen(c)
    /\ conn[c].transport = "ws"
    /\ ev'.op = "close"
    /\ ev'.conn = c
    /\ ev'.cause = "decode"

\* C11: a message that fails to decode on an established raw connection
\* does not close it: the connection is open after the step and the
\* registry is as before it (so a later heartbeat is still handled).
C11_UndecodableKeepsOpen ==
    [][\A c \in Conns :
          UndecodableStep(c) =>
              /\ conn'[c].state = "open"
              /\ active_connections' = active_connections]_vars

\* C12: every heartbeat handled on an open connection, on either transport
\* and with or without an id in its payload, is answered in the same turn
\* of its handler by one heartbeat_ack, sent to the connection it came from
\* and to no other (ev is the step just taken: the message, the connection
\* it came from and the connections an acknowledgement was sent to).
C12_HeartbeatAckedOnce ==
    (ev.op = "message" /\ ev.msg.kind = "heartbeat") =>
        /\ ev.ack_to = <<ev.conn>>
        /\ conn[ev.conn].state = "open"

\* A heartbeat without an id was acknowledged to its sender alone while
\* every connection was open on the sender's transport.
C12_Witness ==
    /\ ev.op = "message"
    /\ ev.msg = [kind |-> "heartbeat", id |-> None]
    /\ ev.ack_to = <<ev.conn>>
    /\ \A c \in Conns : conn[c].state = "open" /\ conn[c].transport = ev.transport

\* C13: a well-formed message with a topic other than heartbeat leaves the
\* registry as it was, is answered with nothing on any connection, and
\* leaves its connection open (and every connection as it was).
C13_OtherTopicNoEffect ==
    [][(ev'.op = "message" /\ ev'.msg.kind = "other") =>
          /\ active_connections' = active_connections
          /\ ev'.ack_to = <<>>
          /\ conn'[ev'.conn].state = "open"
          /\ conn' = conn]_vars

\* A message with another topic was handled on a connection the registry
\* has an entry for.
C13_Witness ==
    /\ ev.op = "message"
    /\ ev.msg.kind = "other"
    /\ PointsAt(active_connections, IdA, ev.conn)
    /\ conn[ev.conn].state = "open"

\* --------------------------------------------- the connect-time properties

\* The connection attempts alone, with a header for each cause of rejection:
\* those of Headers and a certificate without a CN.
ConnectHeaders == Headers \cup {Escaped(Presented("MIInocn"))}

NextConnect ==
    \/ \E req \in ProvisionRequests : Register(req)
    \/ \E c \in Conns, h \in ConnectHeaders : WsConnect(c, h)
    \/ \E c \in Conns, h \in ConnectHeaders : SioConnect(c, h)

SpecConnect == Init /\ [][NextConnect]_vars

\* The header values a party can present: every text of Pems as the proxy
\* escapes it, and the values of Headers.
Presentable == {Escaped(pem) : pem \in Pems} \cup (Headers \ {NoHeader})

\* Why the validator rejects the text a header carries.
RejectionCause(client_cert_header) ==
    LET cert == LoadPem(DecodeHeader(client_cert_header))
    IN  IF ~cert.ok THEN "unparsable"
        ELSE IF cert.cn = None THEN "no CN"
        ELSE IF CertPath(cert.cn) \notin DOMAIN cert_files THEN "no pin"
        ELSE "pin differs"

\* C14: whatever the store holds, all the presented certificates that the
\* validator rejects are turned away alike: on the raw channel with one close
\* code and one reason, on the event channel with one refusal; and a
\* rejected connection attempt that was made had that outcome.
C14_RejectionsAlike ==
    /\ LET rejected == {h \in Presentable : Rejects(h)}
       IN  /\ Cardinality({ws_connect_outcome(cert_files, h) : h \in rejected}) <= 1
           /\ Cardinality({sio_connect_outcome(cert_files, h) : h \in rejected}) <= 1
    /\ (ev.op = "connect" /\ ev.outcome # "accepted") =>
           /\ ev.transport = "ws" =>
                  (ev.outcome = "closed" /\ ev.reason = "Invalid client certificate"
                       /\ conn[ev.conn].close_code = 1008)
           /\ ev.transport = "sio" => ev.outcome = "refused"

\* With a certificate pinned for a, the validator has all four causes to
\* reject a presented text, and both transports have turned one away.
C14_Witness ==
    /\ {RejectionCause(h) : h \in {p \in Presentable : Rejects(p)}}
           = {"unparsable", "no CN", "no pin", "pin differs"}
    /\ conn[1].state = "refused"
    /\ conn[2].state = "refused"
    /\ conn[1].transport # conn[2].transport
    /\ ev.op = "connect"
    /\ RejectionCause(ev.header) = "unparsable"

\* --------------------------------------------- the registry's frame

\* The step ends connection c because its peer disconnected or its
\* transport failed.
TerminationStep(c) ==
    /\ CloseStep(c)
    /\ ev'.op = "close"
    /\ ev'.conn = c
    /\ ev'.cause \in {"disconnect", "error"}

\* C15: a key of the registry stays in it (its session may change) through
\* every step, the steps excepted in which a connection terminates by a
\* disconnect or a failure of its transport.
C15_KeysStayUntilTermination ==
    [][\A id \in DOMAIN active_connections :
          id \notin DOMAIN active_connections' => \E c \in Conns : TerminationStep(c)]_vars

\* --------------------------------------------- the header's round trip

\* The forms in which the proxy forwards a certificate: its line feeds
\* replaced by spaces and the result percent-encoded, or the text
\* percent-encoded as it is.
Forms == {"spaced", "escaped"}

Forwarded(form, pem) ==
    IF form = "spaced" THEN Escaped(Spaced(pem)) ELSE Escaped(pem)

\* A client presents a certificate text to the proxy.
InitHeader ==
    /\ cert_files = [p \in {} |-> <<>>]
    /\ active_connections = [a \in {} |-> 0]
    /\ conn = [c \in Conns |-> IdleConn]
    /\ ev \in {[op |-> "present", pem |-> pem] : pem \in Pems}

\* The proxy puts the text in the header.
ProxyForward(form) ==
    /\ ev.op = "present"
    /\ ev' = [op |-> "forward", pem |-> ev.pem, form |-> form,
              header |-> Forwarded(form, ev.pem)]
    /\ UNCHANGED <<cert_files, active_connections, conn>>

\* A connect handler decodes the header it received: the four statements
\* are the same in connect and in websocket_endpoint.
HandlerDecode(transport) ==
    /\ ev.op = "forward"
    /\ ev' = [op |-> "decode", pem |-> ev.pem, form |-> ev.form,
              header |-> ev.header, transport |-> transport,
              client_cert_pem |-> DecodeHeader(ev.header)]
    /\ UNCHANGED <<cert_files, active_connections, conn>>

NextHeader ==
    \/ \E form \in Forms : ProxyForward(form)
    \/ \E transport \in {"ws", "sio"} : HandlerDecode(transport)

SpecHeader == InitHeader /\ [][NextHeader]_vars

\* The text is a PEM text: a BEGIN CERTIFICATE line, lines, an END
\* CERTIFICATE line, white space around them at most.
IsPemText(text) ==
    LET s == Strip(text)
        n == Len(s)
    IN  n >= 6 /\ SubSeq(s, 1, 3) = BeginMarker /\ SubSeq(s, n - 2, n) = EndMarker

\* The only spaces of the text are those of its two marker lines.
MarkerSpacesOnly(text) ==
    LET rest == Replace(Replace(text, BeginMarker, <<>>), EndMarker, <<>>)
    IN  \A i \in 1..Len(rest) : rest[i] # "SP"

\* C16: the header made of a PEM text whose only spaces are in its marker
\* lines, by replacing its line feeds with spaces and percent-encoding, is
\* decoded back to that text, by the handler of either transport.
C16_DecodeRestores ==
    (/\ ev.op = "decode"
     /\ ev.form = "spaced"
     /\ IsPemText(ev.pem)
     /\ MarkerSpacesOnly(ev.pem))
        => (/\ ev.client_cert_pem = ev.pem
            /\ DecodeHeader(Escaped(Spaced(ev.pem))) = ev.pem)

\* The event channel's handler has decoded the header of a text with CR LF
\* line ends back to it.
C16_Witness ==
    /\ ev.op = "decode"
    /\ ev.form = "spaced"
    /\ ev.transport = "sio"
    /\ ev.pem = PemText(<<"CR", "LF">>, "MIIa1", 0)
    /\ ev.header # ev.pem
    /\ ev.client_cert_pem = ev.pem

\* --------------------------------------------- identity and the API key

\* C17: on a raw connection whose certificate was validated for one
\* identifier, a heartbeat whose payload carries another makes the
\* registry's entry for that other identifier this connection (ev is the
\* heartbeat just handled; the handler leaves validated as connect set it).
C17_PayloadIdBindsUnvalidated ==
    (/\ ev.op = "message"
     /\ ev.transport = "ws"
     /\ ev.msg.kind = "heartbeat"
     /\ ev.msg.id # None
     /\ conn[ev.conn].validated # None
     /\ conn[ev.conn].validated # ev.msg.id)
        => PointsAt(active_connections, ev.msg.id, ev.conn)

\* A connection admitted with the certificate pinned for a is the
\* registry's session of b.
C17_Witness ==
    /\ conn[1].transport = "ws"
    /\ conn[1].state = "open"
    /\ conn[1].validated = IdA
    /\ ev.op = "message"
    /\ ev.conn = 1
    /\ ev.msg = [kind |-> "heartbeat", id |-> IdB]
    /\ PointsAt(active_connections, IdB, 1)
    /\ IdA \notin DOMAIN active_connections

\* C18: a registration request whose Authorization header is not the
\* expected one is answered 403 Forbidden, not by the handler, and leaves
\* every file as it was, whatever its body; and a request with such a
\* header that is answered otherwise has a path that starts with /ws or
\* with /socket.io (and it changes no file either).
C18_KeyGuardsStore ==
    [][(ev'.op = "register" /\ ev'.req.authorization # SECRET_API_KEY) =>
          /\ ev'.req.path = UploadPath =>
                 (ev'.response = Response(403, "Forbidden") /\ cert_files' = cert_files)
          /\ ev'.response # Response(403, "Forbidden") =>
                 (StartsWith(ev'.req.path, <<"/ws">>)
                      \/ StartsWith(ev'.req.path, <<"/socket.io">>))
          /\ cert_files' = cert_files]_vars

\* A registration that the handler would have stored, a second certificate
\* for a over the pinned one, was answered 403 for its key.
C18_Witness ==
    /\ ev.op = "register"
    /\ ev.req.path = UploadPath
    /\ ev.req.authorization = <<"key">>
    /\ ev.req.json
    /\ ev.req.agent_id = IdA
    /\ ev.req.certificate = PemText(<<"LF">>, "MIIa2", 0)
    /\ ev.response.status = 403
    /\ CertPath(IdA) \in DOMAIN cert_files
    /\ cert_files[CertPath(IdA)] = PemText(<<"LF">>, "MIIa1", 0)

====
